---- MODULE Spec2Model ----
(***************************************************************************)
(* A model of src/emitter.c of fcc: the statement-level lowering pass      *)
(* (emitterModule, emitterFnImpl, emitterCode, emitterLine, emitterReturn, *)
(* emitterBranch, emitterLoop, emitterIter) and the stack-frame layout     *)
(* (emitterFnAllocateStack, emitterScopeAssignOffsets).                    *)
(*                                                                         *)
(* The recursive tree walk is a state machine over an explicit call stack: *)
(* a frame per active handler, holding its node, its position and its      *)
(* locals.  A handler is cut into segments at its calls of the recursive   *)
(* handlers; every segment is one action.  Every call of the assembly sink *)
(* (asm...) and of the expression/declaration collaborators (emitterValue, *)
(* emitterDecl) is appended to the stream `out`.                           *)
(***************************************************************************)
EXTENDS Integers, Sequences, FiniteSets, TLC

VARIABLES
    tree,       \* the module AST handed to emitter() (borrowed, never written)
    arch,       \* the architecture descriptor: [wordsize]
    syms,       \* the function symbols: label, type, children with offsets
    ctx,        \* emitterCtx: labelReturnTo, labelBreakTo, labelContinueTo
    labels,     \* ctx->Asm: number of labels asmCreateLabel has handed out
    mangled,    \* number of labels the architecture's symbolMangler has made
    out,        \* ctx->Asm: the stream of sink and collaborator calls
    reports,    \* the reportSymbol log: one entry per offset assignment
    stacksize,  \* the value the last emitterFnAllocateStack call returned
    stack,      \* the call stack of the pass: the active handlers' frames
    aborted,    \* an internal-consistency failure has ended the compilation
    ip,         \* a run of the emitted code: the place in `out` it is at
    trail       \* the places the run passed since it last entered a block

vars == <<tree, arch, syms, ctx, labels, mangled, out, reports, stacksize,
          stack, aborted, ip, trail>>

----------------------------------------------------------------------------
(* Bounds of the inputs.                                                   *)

\* largest number of parameters of a function symbol (frame layout inputs)
MaxParams == 2
\* largest number of scope/variable symbols below a function symbol
MaxSyms == 3
\* largest number of statements in a function body (lowering inputs)
MaxStmts == 3
\* largest number of top-level nodes in a module, nested inclusions counted
MaxTop == 3

----------------------------------------------------------------------------
(* Operands (inc/operand.h): undefined, a label, the flags an expression   *)
(* left its result in, or the content of memory that was never written.    *)

operandUndefined == [tag |-> "operandUndefined", kind |-> "none", id |-> 0]

operandLabel(kind, id) == [tag |-> "operandLabel", kind |-> kind, id |-> id]

operandFlags == [tag |-> "operandFlags", kind |-> "none", id |-> 0]

\* what malloc'ed memory that was never assigned may hold: the bit pattern of
\* the undefined operand, or any other pattern (no label the sink has issued)
operandIndeterminate == [tag |-> "operandIndeterminate", kind |-> "none", id |-> 0]

Uninitialized == {operandUndefined, operandIndeterminate}

IsLabel(o) == o.tag = "operandLabel"

----------------------------------------------------------------------------
(* Symbols (inc/sym.h) and the frame layout.  A type is known to this pass *)
(* by its size only: dt = [size |-> n]; a function's type also has the     *)
(* return type: dt = [size |-> n, ret |-> [size |-> r]].                   *)

typeGetSize(a, dt) == dt.size

typeGetReturn(dt) == dt.ret

Sym(tag, size, children) ==
    [tag |-> tag, dt |-> [size |-> size], offset |-> 0, children |-> children]

FnSym(retsize, children) ==
    [tag |-> "symId", dt |-> [size |-> 0, ret |-> [size |-> retsize]],
     label |-> 0, offset |-> 0, children |-> children]

\* line 90: the running offset is decremented by the variable's size
AutoOffset(a, offset, Symbol) == offset - typeGetSize(a, Symbol.dt)

\* a walk that drops what the nested scope's walk returned: the next sibling
\* is laid over the nested scope's variables
NestedOffsetDropped(sub, offset) == offset

\* line 87: the walk of a nested scope hands its final offset back

NestedOffset(sub, offset) == sub.offset

\* a walk that takes the parameters among the children for variables too
IsAutoOrParam(Symbol) == Symbol.tag \in {"symId", "symParam"}

\* line 89: the children that get a slot are the identifier symbols
IsAuto(Symbol) == Symbol.tag = "symId"

\* emitterScopeAssignOffsets, lines 82-98: the loop from child n on.
\* st = [scope: Scope with the offsets assigned so far, offset, reports]
RECURSIVE emitterScopeAssignOffsets(_, _, _, _)
emitterScopeAssignOffsets(a, path, n, st) ==
    IF n > Len(st.scope.children) THEN st
    ELSE LET Symbol == st.scope.children[n] IN
         IF Symbol.tag = "symScope" THEN
            LET sub == emitterScopeAssignOffsets(a, path \o <<n>>, 1,
                           [scope |-> Symbol, offset |-> st.offset,
                            reports |-> st.reports])
            IN  emitterScopeAssignOffsets(a, path, n + 1,
                    [scope   |-> [st.scope EXCEPT !.children[n] = sub.scope],
                     offset  |-> NestedOffset(sub, st.offset),
                     reports |-> sub.reports])
         ELSE IF IsAuto(Symbol) THEN
            LET offset == AutoOffset(a, st.offset, Symbol) IN
                emitterScopeAssignOffsets(a, path, n + 1,
                    [scope   |-> [st.scope EXCEPT !.children[n].offset = offset],
                     offset  |-> offset,
                     reports |-> Append(st.reports,
                                   [sym |-> path \o <<n>>, offset |-> offset])])
         ELSE emitterScopeAssignOffsets(a, path, n + 1, st)

\* the same with a return value of exactly one word taken for a temporary
FirstParamOffsetAtLeast(a, fn) ==
    IF typeGetSize(a, typeGetReturn(fn.dt)) >= a.wordsize
    THEN 3 * a.wordsize ELSE 2 * a.wordsize

\* lines 103-107: two words are on the stack already, three when the return
\* value comes back through a temporary
FirstParamOffset(a, fn) ==
    IF typeGetSize(a, typeGetReturn(fn.dt)) > a.wordsize
    THEN 2 * a.wordsize + a.wordsize ELSE 2 * a.wordsize

\* a layout that gives every parameter one word
ParamAdvanceWord(a, lastOffset, param) == lastOffset + a.wordsize

\* line 117: the next parameter follows this one

ParamAdvance(a, lastOffset, param) == lastOffset + typeGetSize(a, param.dt)

\* lines 110-120: the parameter loop from child n on; stops at the first
\* child that is no parameter.  st = [scope, offset, reports]
RECURSIVE AssignParams(_, _, _)
AssignParams(a, n, st) ==
    IF n > Len(st.scope.children) THEN st
    ELSE LET param == st.scope.children[n] IN
         IF param.tag # "symParam" THEN st
         ELSE AssignParams(a, n + 1,
                  [scope   |-> [st.scope EXCEPT !.children[n].offset = st.offset],
                   offset  |-> ParamAdvance(a, st.offset, param),
                   reports |-> Append(st.reports,
                                 [sym |-> <<n>>, offset |-> st.offset])])

\* emitterFnAllocateStack, lines 100-125: the symbol with its offsets, the
\* returned frame size and what reportSymbol was called with
emitterFnAllocateStack(a, fn) ==
    LET params == AssignParams(a, 1,
                      [scope |-> fn, offset |-> FirstParamOffset(a, fn),
                       reports |-> <<>>])
        autos  == emitterScopeAssignOffsets(a, <<>>, 1,
                      [scope |-> params.scope, offset |-> 0,
                       reports |-> params.reports])
    IN  [fn |-> autos.scope, stacksize |-> 0 - autos.offset,
         reports |-> autos.reports]

----------------------------------------------------------------------------
(* The inputs of the frame layout: function symbols whose children are a   *)
(* contiguous prefix of parameters followed by variables, nested scopes    *)
(* and symbols of other kinds (a nested type), every type size positive.   *)

WordSizes == {4, 8}

TypeSizes == {4, 8}

\* 0: a function returning void
RetSizes == {0, 4, 8}

\* the forests of exactly n symbols a scope can hold
RECURSIVE SymForests(_)
SymForests(n) ==
    IF n = 0 THEN {<<>>}
    ELSE UNION {
           {<<s>> \o rest :
               s \in (IF k = 1
                      THEN {Sym("symId", z, <<>>) : z \in TypeSizes}
                           \cup {Sym("symStruct", 8, <<>>)}
                      ELSE {})
                     \cup {Sym("symScope", 0, c) : c \in SymForests(k - 1)},
               rest \in SymForests(n - k)} : k \in 1..n }

RECURSIVE ParamLists(_)
ParamLists(n) ==
    IF n = 0 THEN {<<>>}
    ELSE {<<>>} \cup {<<Sym("symParam", z, <<>>)>> \o rest :
                         z \in TypeSizes, rest \in ParamLists(n - 1)}

FnSyms ==
    {FnSym(r, ps \o body) :
        r \in RetSizes, ps \in ParamLists(MaxParams),
        body \in UNION {SymForests(n) : n \in 0..MaxSyms}}

\* the function symbols of the lowering inputs: f(a, b) { int x; { int y; } }
\* and g(void) {}
FixedSyms ==
    <<FnSym(8, <<Sym("symParam", 4, <<>>), Sym("symParam", 4, <<>>),
                 Sym("symId", 4, <<>>),
                 Sym("symScope", 0, <<Sym("symId", 4, <<>>)>>)>>),
      FnSym(0, <<>>)>>

SymIds == 1..2

----------------------------------------------------------------------------
(* AST nodes (inc/ast.h): a tag, the referenced symbol (function           *)
(* implementations), the child list firstChild/nextSibling, and the two    *)
(* slots l and r, each a sequence holding the node or nothing (null).      *)

Node(tag, symbol, children, l, r) ==
    [tag |-> tag, symbol |-> symbol, children |-> children, l |-> l, r |-> r]

Leaf(tag) == Node(tag, 0, <<>>, <<>>, <<>>)

NoNode == Leaf("none")

Code(stmts) == Node("astCode", 0, stmts, <<>>, <<>>)

\* the expressions of the inputs, one tag per position
CondExpr == Leaf("astBOP")
StepExpr == Leaf("astUOP")
InitExpr == Leaf("astTOP")
LineExpr == Leaf("astCall")
RetExpr  == Leaf("astLiteral")

\* astIsValueTag (ast.c): the expression tags
astIsValueTag(tag) ==
    tag \in {"astBOP", "astUOP", "astTOP", "astIndex", "astCall", "astCast",
             "astSizeof", "astLiteral"}

\* the statements of one node: kind k names the tag and the shape
LeafStmt(k) ==
    CASE k = "return"   -> Leaf("astReturn")
      [] k = "returnV"  -> Node("astReturn", 0, <<>>, <<>>, <<RetExpr>>)
      [] k = "break"    -> Leaf("astBreak")
      [] k = "continue" -> Leaf("astContinue")
      [] k = "value"    -> LineExpr
      [] k = "decl"     -> Leaf("astDecl")
      [] k = "empty"    -> Leaf("astEmpty")
      [] k = "bad"      -> Leaf("astInvalid")

LeafKinds == {"return", "returnV", "break", "continue", "value", "decl",
              "empty", "bad"}

\* the statements holding one block b
BlockStmt(k, b) ==
    CASE k = "code"   -> Code(b)
      [] k = "if"     -> Node("astBranch", 0, <<CondExpr>>, <<Code(b)>>, <<>>)
      [] k = "while"  -> Node("astLoop", 0, <<>>, <<CondExpr>>, <<Code(b)>>)
      [] k = "do"     -> Node("astLoop", 0, <<>>, <<Code(b)>>, <<CondExpr>>)
      [] k = "for___" -> Node("astIter", 0,
                              <<Leaf("astEmpty"), Leaf("astEmpty"), Leaf("astEmpty")>>,
                              <<Code(b)>>, <<>>)
      [] k = "forDCS" -> Node("astIter", 0,
                              <<Leaf("astDecl"), CondExpr, StepExpr>>,
                              <<Code(b)>>, <<>>)
      [] k = "forVC_" -> Node("astIter", 0,
                              <<InitExpr, CondExpr, Leaf("astEmpty")>>,
                              <<Code(b)>>, <<>>)
      [] k = "forX_S" -> Node("astIter", 0,
                              <<Leaf("astInvalid"), Leaf("astEmpty"), StepExpr>>,
                              <<Code(b)>>, <<>>)

BlockKinds == {"code", "if", "while", "do", "for___", "forDCS", "forVC_", "forX_S"}

IfElse(b1, b2) == Node("astBranch", 0, <<CondExpr>>, <<Code(b1)>>, <<Code(b2)>>)

\* the statement lists of exactly n statements (nested ones counted) whose
\* kinds all lie in K
RECURSIVE Blocks(_, _)
Blocks(K, n) ==
    IF n = 0 THEN {<<>>}
    ELSE UNION {
           {<<s>> \o rest :
               s \in (IF k = 1 THEN {LeafStmt(x) : x \in K \cap LeafKinds} ELSE {})
                     \cup {BlockStmt(x, b) :
                              x \in K \cap BlockKinds, b \in Blocks(K, k - 1)}
                     \cup (IF "ifelse" \in K
                           THEN UNION {{IfElse(b1, b2) :
                                           b1 \in Blocks(K, i),
                                           b2 \in Blocks(K, k - 1 - i)} :
                                       i \in 0..(k - 1)}
                           ELSE {}),
               rest \in Blocks(K, n - k)} : k \in 1..n }

\* the kinds that occur together in a function body of the inputs
Profiles ==
    { {"break", "continue", "while", "do"},
      {"break", "continue", "for___", "while"},
      {"return", "returnV", "ifelse", "while"},
      {"return", "break", "if", "for___"},
      {"value", "decl", "empty", "code"},
      {"bad", "code", "do", "if"},
      {"continue", "forDCS", "forVC_", "forX_S"},
      {"bad", "returnV", "ifelse", "forDCS"} }

FnImpl(symbol, body) == Node("astFnImpl", symbol, <<>>, <<>>, <<Code(body)>>)

Module(nodes) == Node("astModule", 0, nodes, <<>>, <<>>)

\* modules of one function whose body has at most MaxStmts statements
FunctionInputs ==
    {Module(<<FnImpl(1, b)>>) :
        b \in UNION {Blocks(K, n) : K \in Profiles, n \in 0..MaxStmts}}

\* the top-level node lists of exactly n nodes, inclusions' nodes counted
RECURSIVE TopLists(_)
TopLists(n) ==
    IF n = 0 THEN {<<>>}
    ELSE UNION {
           {<<t>> \o rest :
               t \in (IF k = 1
                      THEN {Leaf("astUsing"), Leaf("astDecl"), Leaf("astEmpty"),
                            Leaf("astInvalid"),
                            FnImpl(1, <<>>), FnImpl(2, <<>>),
                            FnImpl(2, <<LeafStmt("return")>>)}
                      ELSE {})
                     \cup {Node("astUsing", 0, <<>>, <<>>, <<Module(m)>>) :
                              m \in TopLists(k - 1)},
               rest \in TopLists(n - k)} : k \in 1..n }

\* modules of at most MaxTop top-level nodes
ModuleInputs == {Module(m) : m \in UNION {TopLists(n) : n \in 0..MaxTop}}

----------------------------------------------------------------------------
(* The assembly sink (asm.c) and the collaborators, by the calls made:     *)
(* every call appends one entry to the stream.                             *)

Ev(op, lbl, cond, node, req, name, size) ==
    [op |-> op, lbl |-> lbl, cond |-> cond, node |-> node, req |-> req,
     name |-> name, size |-> size]

asmComment == Ev("asmComment", operandUndefined, operandUndefined, "", "", 0, 0)
asmEnter == Ev("asmEnter", operandUndefined, operandUndefined, "", "", 0, 0)
asmLeave == Ev("asmLeave", operandUndefined, operandUndefined, "", "", 0, 0)
asmFilePrologue ==
    Ev("asmFilePrologue", operandUndefined, operandUndefined, "", "", 0, 0)
asmFileEpilogue ==
    Ev("asmFileEpilogue", operandUndefined, operandUndefined, "", "", 0, 0)
asmLabel(L) == Ev("asmLabel", L, operandUndefined, "", "", 0, 0)
asmJump(L) == Ev("asmJump", L, operandUndefined, "", "", 0, 0)
asmBranch(Condition, L) == Ev("asmBranch", L, Condition, "", "", 0, 0)
asmFnPrologue(name, size) ==
    Ev("asmFnPrologue", operandUndefined, operandUndefined, "", "", name, size)
asmFnEpilogue(L) == Ev("asmFnEpilogue", L, operandUndefined, "", "", 0, 0)

\* asmCreateLabel: a label no earlier call returned; n labels exist
asmCreateLabel(n, kind) == operandLabel(kind, n + 1)

\* emitterValue: the expression's code, and the operand its result is in
emitterValue(N, request) ==
    Ev("emitterValue", operandUndefined, operandUndefined, N.tag, request, 0, 0)

emitterValueResult(N, request) ==
    IF request = "requestFlags" THEN operandFlags ELSE operandUndefined

emitterDecl(N) ==
    Ev("emitterDecl", operandUndefined, operandUndefined, N.tag, "", 0, 0)

\* symbolMangler (the architecture's): a newly allocated label, the k-th
symbolMangler(k) == k

\* debugErrorUnhandled (debug.c): the internal-consistency failure is fatal;
\* the value of `aborted` after the call
debugErrorUnhandled == TRUE

----------------------------------------------------------------------------
(* The frame layout on its own: one call of emitterFnAllocateStack on the  *)
(* function symbol syms[1].                                                *)

\* A frame: the handler, its position, its node and its locals.  AtCall is
\* no local of the code: in the frame of a statement's lowering it records
\* the targets of the emission context as emitterLine was called, for the
\* comparison with the targets as the lowering returns.
Frame(fn, pc, N) ==
    [fn |-> fn, pc |-> pc, Node |-> N, Current |-> 1,
     ElseLabel |-> operandUndefined, EndLabel |-> operandUndefined,
     LoopLabel |-> operandUndefined,
     OldBreakTo |-> operandUndefined, OldContinueTo |-> operandUndefined,
     AtCall |-> <<>>]

InitFrame ==
    /\ tree = NoNode
    /\ arch \in {[wordsize |-> w] : w \in WordSizes}
    /\ syms \in {[FixedSyms EXCEPT ![1] = f] : f \in FnSyms}
    /\ ctx = [labelReturnTo |-> operandUndefined,
              labelBreakTo |-> operandUndefined,
              labelContinueTo |-> operandUndefined]
    /\ labels = 0
    /\ mangled = 0
    /\ out = <<>>
    /\ reports = <<>>
    /\ stacksize = 0
    /\ stack = <<Frame("emitterFnAllocateStack", "entry", NoNode)>>
    /\ aborted = FALSE
    /\ ip = 1
    /\ trail = <<>>

AllocateStack ==
    /\ stack # <<>>
    /\ stack[Len(stack)].fn = "emitterFnAllocateStack"
    /\ LET res == emitterFnAllocateStack(arch, syms[1]) IN
         /\ syms' = [syms EXCEPT ![1] = res.fn]
         /\ stacksize' = res.stacksize
         /\ reports' = reports \o res.reports
    /\ stack' = SubSeq(stack, 1, Len(stack) - 1)
    /\ UNCHANGED <<ip, trail, tree, arch, ctx, labels, mangled, out, aborted>>

NextFrame == AllocateStack

SpecFrame == InitFrame /\ [][NextFrame]_vars

\* the layout call has returned
Allocated == stack = <<>>

\* the parameters of fn: the prefix of its children tagged symParam
RECURSIVE ParamsFrom(_, _)
ParamsFrom(fn, n) ==
    IF n > Len(fn.children) \/ fn.children[n].tag # "symParam" THEN <<>>
    ELSE <<[path |-> <<n>>, size |-> fn.children[n].dt.size,
            offset |-> fn.children[n].offset]>> \o ParamsFrom(fn, n + 1)

\* the identifier symbols of the scope tree, depth-first in declaration order
RECURSIVE AutosFrom(_, _, _)
AutosFrom(scope, path, n) ==
    IF n > Len(scope.children) THEN <<>>
    ELSE LET c == scope.children[n] IN
         (IF c.tag = "symId"
             THEN <<[path |-> path \o <<n>>, size |-> c.dt.size,
                     offset |-> c.offset]>>
          ELSE IF c.tag = "symScope" THEN AutosFrom(c, path \o <<n>>, 1)
          ELSE <<>>) \o AutosFrom(scope, path, n + 1)

\* the sum of the sizes of the first n entries
RECURSIVE SumSizes(_, _)
SumSizes(s, n) == IF n = 0 THEN 0 ELSE s[n].size + SumSizes(s, n - 1)

Overlap(s, t) == s.offset < t.offset + t.size /\ t.offset < s.offset + s.size

\* C1: after emitterFnAllocateStack the ranges [offset, offset+size) of all
\* parameters and automatic variables are pairwise disjoint, and none of a
\* parameter overlaps one of an automatic variable.
C1_OffsetsDisjoint ==
    Allocated =>
        LET slots == ParamsFrom(syms[1], 1) \o AutosFrom(syms[1], <<>>, 1) IN
        \A i, j \in 1..Len(slots) : i # j => ~Overlap(slots[i], slots[j])

\* two parameters, a variable in the function scope and one in a nested scope
C1_Witness ==
    /\ Allocated
    /\ Len(ParamsFrom(syms[1], 1)) >= 2
    /\ \E i, j \in 1..Len(AutosFrom(syms[1], <<>>, 1)) :
          /\ Len(AutosFrom(syms[1], <<>>, 1)[i].path) = 1
          /\ Len(AutosFrom(syms[1], <<>>, 1)[j].path) = 2

\* C2: the first parameter is at 2*wordsize, at 3*wordsize when the return
\* type is larger than a word; every further parameter is at the previous
\* one's offset plus the previous one's size.  Word size 8, return size 8,
\* parameters of 4 and 4 bytes: offsets 16 and 20.
C2_ParamOffsets ==
    Allocated =>
        LET ps == ParamsFrom(syms[1], 1)
            w  == arch.wordsize
        IN  /\ Len(ps) >= 1 =>
                 ps[1].offset = (IF syms[1].dt.ret.size <= w THEN 2 * w ELSE 3 * w)
            /\ \A i \in 2..Len(ps) :
                 ps[i].offset = ps[i - 1].offset + ps[i - 1].size
            /\ (w = 8 /\ syms[1].dt.ret.size = 8 /\ Len(ps) = 2
                   /\ ps[1].size = 4 /\ ps[2].size = 4)
                 => (ps[1].offset = 16 /\ ps[2].offset = 20)

\* the scenario of the claim, and a return value larger than a word
C2_Witness ==
    /\ Allocated
    /\ arch.wordsize = 8 /\ syms[1].dt.ret.size = 8
    /\ Len(ParamsFrom(syms[1], 1)) = 2
    /\ ParamsFrom(syms[1], 1)[1].size = 4
    /\ ParamsFrom(syms[1], 1)[2].offset = 20

\* C3: the identifier symbols are visited depth-first in declaration order;
\* each gets the running offset (from 0) after its size is subtracted, so no
\* slot is used twice; the frame size returned is the negation of the final
\* offset, is >= 0 and is the sum of the sizes.  { int x; { int y; } } with
\* size 4: x at -4, y at -8, frame size 8.
C3_AutoOffsets ==
    Allocated =>
        LET as == AutosFrom(syms[1], <<>>, 1)
            np == Len(ParamsFrom(syms[1], 1))
        IN  /\ Len(reports) = np + Len(as)
            /\ \A i \in 1..Len(as) :
                 /\ reports[np + i] = [sym |-> as[i].path, offset |-> as[i].offset]
                 /\ as[i].offset = 0 - SumSizes(as, i)
            /\ \A i, j \in 1..Len(as) : i # j => as[i].offset # as[j].offset
            /\ stacksize = SumSizes(as, Len(as))
            /\ stacksize >= 0
            /\ (Len(as) = 2 /\ as[1].size = 4 /\ as[2].size = 4)
                 => (as[1].offset = -4 /\ as[2].offset = -8 /\ stacksize = 8)

\* a variable in a nested scope, then a sibling variable placed below it
C3_Witness ==
    /\ Allocated
    /\ LET as == AutosFrom(syms[1], <<>>, 1) IN
         /\ Len(as) = 2
         /\ Len(as[1].path) = 2 /\ Len(as[2].path) = 1
         /\ as[2].offset = as[1].offset - as[2].size
         /\ stacksize = as[1].size + as[2].size

----------------------------------------------------------------------------
(* The lowering pass.  Init is the state emitterInit leaves (lines 32-39): *)
(* labelReturnTo and labelBreakTo are set to the undefined operand,        *)
(* labelContinueTo is not written and holds what malloc returned.          *)

emitterInit ==
    /\ arch = [wordsize |-> 8]
    /\ syms = FixedSyms
    /\ ctx \in {[labelReturnTo |-> operandUndefined,
                 labelBreakTo |-> operandUndefined,
                 labelContinueTo |-> u] : u \in Uninitialized}
    /\ labels = 0
    /\ mangled = 0
    /\ out = <<>>
    /\ reports = <<>>
    /\ stacksize = 0
    /\ stack = <<Frame("emitter", "entry", tree)>>
    /\ aborted = FALSE
    /\ ip = 1
    /\ trail = <<>>

Init ==
    /\ tree \in FunctionInputs \cup ModuleInputs
    /\ emitterInit

Top == stack[Len(stack)]

Pop == SubSeq(stack, 1, Len(stack) - 1)

\* the handler fn is the one running
Running(fn) == ~aborted /\ stack # <<>> /\ Top.fn = fn

\* the frame of the caller, moved on to its next child
Advance(f) == [f EXCEPT !.Current = f.Current + 1, !.pc = "loop"]

\* emitter, lines 46-50: the file prologue, then the module
emitter_begin ==
    /\ Running("emitter") /\ Top.pc = "entry"
    /\ out' = Append(out, asmFilePrologue)
    /\ stack' = <<[Top EXCEPT !.pc = "epilogue"],
                  Frame("emitterModule", "entry", Top.Node)>>
    /\ UNCHANGED <<ip, trail, tree, arch, syms, ctx, labels, mangled, reports, stacksize,
                   aborted>>

\* emitter, lines 52-53: the file epilogue; the context is freed
emitter_end ==
    /\ Running("emitter") /\ Top.pc = "epilogue"
    /\ out' = Append(out, asmFileEpilogue)
    /\ stack' = <<>>
    /\ UNCHANGED <<ip, trail, tree, arch, syms, ctx, labels, mangled, reports, stacksize,
                   aborted>>

\* the tags emitterModule handles (lines 62-72)
ModuleHandles(tag) == tag \in {"astUsing", "astFnImpl", "astDecl", "astEmpty"}

\* an inclusion that is never followed into its module
HasModuleNever(Current) == FALSE

\* line 63: the inclusion refers to a module
HasModule(Current) == Current.r # <<>>

\* emitterModule, lines 56-80: one turn of the loop over the top-level nodes
emitterModule ==
    /\ Running("emitterModule")
    /\ IF Top.Current > Len(Top.Node.children)
       THEN /\ stack' = Pop
            /\ UNCHANGED <<out, aborted>>
       ELSE LET Current == Top.Node.children[Top.Current]
                caller  == Append(Pop, Advance(Top))
            IN  IF Current.tag = "astUsing"
                THEN /\ stack' = IF HasModule(Current)
                                 THEN Append(caller, Frame("emitterModule",
                                                           "entry", Current.r[1]))
                                 ELSE caller
                     /\ UNCHANGED <<out, aborted>>
                ELSE IF Current.tag = "astFnImpl"
                THEN /\ stack' = Append(caller, Frame("emitterFnImpl", "entry",
                                                      Current))
                     /\ UNCHANGED <<out, aborted>>
                ELSE IF Current.tag = "astDecl"
                THEN /\ out' = Append(out, emitterDecl(Current))
                     /\ stack' = caller
                     /\ UNCHANGED aborted
                ELSE IF ModuleHandles(Current.tag)
                THEN /\ stack' = caller
                     /\ UNCHANGED <<out, aborted>>
                ELSE /\ aborted' = debugErrorUnhandled
                     /\ UNCHANGED <<out, stack>>
    /\ UNCHANGED <<ip, trail, tree, arch, syms, ctx, labels, mangled, reports, stacksize>>

\* a lowering that asks the mangler every time
LabelAlwaysUnset(symbol) == TRUE

\* line 130: the mangler is asked for a label only when none is set

LabelUnset(symbol) == symbol.label = 0

\* emitterFnImpl, lines 127-141: label, frame layout, return label,
\* prologue; then the body
emitterFnImpl_begin ==
    /\ Running("emitterFnImpl") /\ Top.pc = "entry"
    /\ LET id       == Top.Node.symbol
           mangle   == LabelUnset(syms[id])
           label    == IF mangle THEN symbolMangler(mangled + 1)
                       ELSE syms[id].label
           frame    == emitterFnAllocateStack(arch, syms[id])
           EndLabel == asmCreateLabel(labels, "labelReturn")
       IN  /\ mangled' = IF mangle THEN mangled + 1 ELSE mangled
           /\ syms' = [syms EXCEPT ![id] = [frame.fn EXCEPT !.label = label]]
           /\ stacksize' = frame.stacksize
           /\ reports' = reports \o frame.reports
           /\ labels' = labels + 1
           /\ ctx' = [ctx EXCEPT !.labelReturnTo = EndLabel]
           /\ out' = out \o <<asmComment, asmFnPrologue(label, frame.stacksize)>>
           /\ stack' = Pop \o <<[Top EXCEPT !.pc = "epilogue",
                                            !.EndLabel = EndLabel],
                                Frame("emitterCode", "entry", Top.Node.r[1])>>
    /\ UNCHANGED <<ip, trail, tree, arch, aborted>>

\* emitterFnImpl, lines 142-144: the epilogue at the return label
emitterFnImpl_end ==
    /\ Running("emitterFnImpl") /\ Top.pc = "epilogue"
    /\ out' = Append(out, asmFnEpilogue(Top.EndLabel))
    /\ stack' = Pop
    /\ UNCHANGED <<ip, trail, tree, arch, syms, ctx, labels, mangled, reports, stacksize,
                   aborted>>

\* emitterCode, lines 147-157: asmEnter on entry, then one turn of the loop
\* over the statements; asmLeave after the last
emitterCode ==
    /\ Running("emitterCode")
    /\ LET enter == IF Top.pc = "entry" THEN <<asmEnter>> ELSE <<>> IN
       IF Top.Current > Len(Top.Node.children)
       THEN /\ out' = out \o enter \o <<asmLeave>>
            /\ stack' = Pop
       ELSE /\ out' = out \o enter
            /\ stack' = Pop \o <<Advance(Top),
                                 [Frame("emitterLine", "entry",
                                        Top.Node.children[Top.Current])
                                    EXCEPT !.AtCall = <<ctx>>]>>
    /\ UNCHANGED <<ip, trail, tree, arch, syms, ctx, labels, mangled, reports, stacksize,
                   aborted>>

\* a return whose value is evaluated and discarded
emitterReturnVoid(c, N) ==
    (IF N.r # <<>> THEN <<emitterValue(N.r[1], "requestVoid")>> ELSE <<>>)
    \o <<asmJump(c.labelReturnTo)>>

\* a return that leaves through the break target
emitterReturnToBreak(c, N) ==
    (IF N.r # <<>> THEN <<emitterValue(N.r[1], "requestReturn")>> ELSE <<>>)
    \o <<asmJump(c.labelBreakTo)>>

\* emitterReturn, lines 200-210
emitterReturn(c, N) ==
    (IF N.r # <<>> THEN <<emitterValue(N.r[1], "requestReturn")>> ELSE <<>>)
    \o <<asmJump(c.labelReturnTo)>>

\* break and continue with their targets exchanged
BreakContinueSwapped(c, N) ==
    IF N.tag = "astBreak" THEN <<asmJump(c.labelContinueTo)>>
    ELSE <<asmJump(c.labelBreakTo)>>

\* lines 179-183: break and continue jump to the current targets
BreakContinue(c, N) ==
    IF N.tag = "astBreak" THEN <<asmJump(c.labelBreakTo)>>
    ELSE <<asmJump(c.labelContinueTo)>>

\* the tags emitterLine hands to a handler of its own frame (lines 164-174)
LineCalls(tag) ==
    CASE tag = "astBranch" -> "emitterBranch"
      [] tag = "astLoop"   -> "emitterLoop"
      [] tag = "astIter"   -> "emitterIter"
      [] tag = "astCode"   -> "emitterCode"
      [] OTHER             -> "none"

\* a dispatch whose last arm takes every remaining tag for an empty statement
LineHandlesAll(tag) == TRUE

\* the tags emitterLine handles (lines 164-191)

LineHandles(tag) ==
    \/ tag \in {"astBranch", "astLoop", "astIter", "astCode", "astReturn",
                "astBreak", "astContinue", "astDecl", "astEmpty"}
    \/ astIsValueTag(tag)

\* emitterLine, lines 159-198: a comment, then the dispatch on the tag.  The
\* handlers of nested statements take the place of this frame: nothing but
\* debugLeave follows their return.
emitterLine ==
    /\ Running("emitterLine")
    /\ LET N == Top.Node IN
       IF LineCalls(N.tag) # "none"
       THEN /\ out' = Append(out, asmComment)
            /\ stack' = Append(Pop, [Frame(LineCalls(N.tag), "entry", N)
                                        EXCEPT !.AtCall = Top.AtCall])
            /\ UNCHANGED aborted
       ELSE IF ~LineHandles(N.tag)
       THEN /\ out' = Append(out, asmComment)
            /\ aborted' = debugErrorUnhandled
            /\ UNCHANGED stack
       ELSE /\ out' = out \o <<asmComment>> \o
                  (IF N.tag = "astReturn" THEN emitterReturn(ctx, N)
                   ELSE IF N.tag \in {"astBreak", "astContinue"}
                        THEN BreakContinue(ctx, N)
                   ELSE IF N.tag = "astDecl" THEN <<emitterDecl(N)>>
                   ELSE IF astIsValueTag(N.tag)
                        THEN <<emitterValue(N, "requestVoid")>>
                   ELSE <<>>)
            /\ stack' = Pop
            /\ UNCHANGED aborted
    /\ UNCHANGED <<ip, trail, tree, arch, syms, ctx, labels, mangled, reports, stacksize>>

\* the condition with its conditional jump (lines 219-221, 260-262, 275-277,
\* 321-322): emitterValue runs before asmBranch
Check(cond, L) ==
    <<emitterValue(cond, "requestFlags"),
      asmBranch(emitterValueResult(cond, "requestFlags"), L)>>

\* emitterBranch, lines 212-223: two labels, the condition, the then-branch
emitterBranch_begin ==
    /\ Running("emitterBranch") /\ Top.pc = "entry"
    /\ LET ElseLabel == asmCreateLabel(labels, "labelElse")
           EndLabel  == asmCreateLabel(labels + 1, "labelEndIf")
       IN  /\ labels' = labels + 2
           /\ out' = out \o Check(Top.Node.children[1], ElseLabel)
           /\ stack' = Pop \o <<[Top EXCEPT !.pc = "then",
                                            !.ElseLabel = ElseLabel,
                                            !.EndLabel = EndLabel],
                                Frame("emitterCode", "entry", Top.Node.l[1])>>
    /\ UNCHANGED <<ip, trail, tree, arch, syms, ctx, mangled, reports, stacksize, aborted>>

\* a branch whose else label is never defined
BranchElseNoLabel(f) == <<asmComment, asmJump(f.EndLabel)>>

\* the else label put before the jump over the else-branch
BranchElseLabelFirst(f) ==
    <<asmComment, asmLabel(f.ElseLabel), asmJump(f.EndLabel)>>

\* lines 226-228: from the then-branch over the else-branch
BranchElse(f) == <<asmComment, asmJump(f.EndLabel), asmLabel(f.ElseLabel)>>

\* emitterBranch, lines 225-235: after the then-branch
emitterBranch_then ==
    /\ Running("emitterBranch") /\ Top.pc = "then"
    /\ IF Top.Node.r # <<>>
       THEN /\ out' = out \o BranchElse(Top)
            /\ stack' = Pop \o <<[Top EXCEPT !.pc = "else"],
                                 Frame("emitterCode", "entry", Top.Node.r[1])>>
       ELSE /\ out' = Append(out, asmLabel(Top.ElseLabel))
            /\ stack' = Pop
    /\ UNCHANGED <<ip, trail, tree, arch, syms, ctx, labels, mangled, reports, stacksize,
                   aborted>>

\* emitterBranch, line 232: after the else-branch
emitterBranch_else ==
    /\ Running("emitterBranch") /\ Top.pc = "else"
    /\ out' = Append(out, asmLabel(Top.EndLabel))
    /\ stack' = Pop
    /\ UNCHANGED <<ip, trail, tree, arch, syms, ctx, labels, mangled, reports, stacksize,
                   aborted>>

\* every loop taken for a while
isDoNever(N) == FALSE

\* line 253: the loop is a do-while when the first slot holds the block

isDo(N) == N.l[1].tag = "astCode"

\* a loop that puts the break target back and forgets the continue target
RestoreBreakOnly(c, f) == [c EXCEPT !.labelBreakTo = f.OldBreakTo]

\* a loop that leaves its own targets installed
RestoreNothing(c, f) == c

\* lines 282-283 and 344-345: the targets saved on entry are put back

Restore(c, f) ==
    [c EXCEPT !.labelBreakTo = f.OldBreakTo,
              !.labelContinueTo = f.OldContinueTo]

\* lines 244-249 and 295-300: the top label, then the exit label as the new
\* break target and a continue label as the new continue target; the
\* targets found are saved in the frame
Enter(f, c, n, top) ==
    [f EXCEPT !.pc = "body",
              !.LoopLabel = asmCreateLabel(n, top),
              !.OldBreakTo = c.labelBreakTo,
              !.OldContinueTo = c.labelContinueTo,
              !.EndLabel = asmCreateLabel(n + 1, "labelBreak")]

Install(c, n) ==
    [c EXCEPT !.labelBreakTo = asmCreateLabel(n + 1, "labelBreak"),
              !.labelContinueTo = asmCreateLabel(n + 2, "labelContinue")]

\* emitterLoop, lines 240-267: labels, the condition of a while, the top
\* label; then the body
emitterLoop_begin ==
    /\ Running("emitterLoop") /\ Top.pc = "entry"
    /\ LET N    == Top.Node
           f    == Enter(Top, ctx, labels, "labelWhile")
           cond == IF isDo(N) THEN N.r[1] ELSE N.l[1]
           code == IF isDo(N) THEN N.l[1] ELSE N.r[1]
       IN  /\ labels' = labels + 3
           /\ ctx' = Install(ctx, labels)
           /\ out' = out \o (IF ~isDo(N) THEN Check(cond, f.EndLabel) ELSE <<>>)
                         \o <<asmLabel(f.LoopLabel)>>
           /\ stack' = Pop \o <<f, Frame("emitterCode", "entry", code)>>
    /\ UNCHANGED <<ip, trail, tree, arch, syms, mangled, reports, stacksize, aborted>>

\* emitterLoop, lines 269-285: the continue label, the condition, the jump
\* to the top, the exit label; the saved targets are restored
emitterLoop_end ==
    /\ Running("emitterLoop") /\ Top.pc = "body"
    /\ LET N    == Top.Node
           cond == IF isDo(N) THEN N.r[1] ELSE N.l[1]
       IN  out' = out \o <<asmComment, asmLabel(ctx.labelContinueTo)>>
                      \o Check(cond, Top.EndLabel)
                      \o <<asmJump(Top.LoopLabel), asmLabel(Top.EndLabel)>>
    /\ ctx' = Restore(ctx, Top)
    /\ stack' = Pop
    /\ UNCHANGED <<ip, trail, tree, arch, syms, labels, mangled, reports, stacksize,
                   aborted>>

\* the tags emitterIter takes as the init part (lines 304-312)
IterInitHandles(tag) == tag = "astDecl" \/ astIsValueTag(tag) \/ tag = "astEmpty"

\* an iteration that never checks its condition at the top
IterCheckNever(cond, L) == <<>>

\* an iteration that checks its condition slot whatever it holds
IterCheckAlways(cond, L) == Check(cond, L)

\* lines 320-323: the condition is checked at the top unless it is empty
IterCheck(cond, L) == IF cond.tag # "astEmpty" THEN Check(cond, L) ELSE <<>>

\* emitterIter, lines 288-327: labels, the init part, the top label, the
\* condition unless empty; then the body
emitterIter_begin ==
    /\ Running("emitterIter") /\ Top.pc = "entry"
    /\ LET N    == Top.Node
           init == N.children[1]
           cond == N.children[2]
           f    == Enter(Top, ctx, labels, "labelFor")
       IN  /\ labels' = labels + 3
           /\ ctx' = Install(ctx, labels)
           /\ IF ~IterInitHandles(init.tag)
              THEN /\ aborted' = debugErrorUnhandled
                   /\ stack' = Append(Pop, f)
                   /\ UNCHANGED out
              ELSE /\ out' = out
                        \o (IF init.tag = "astDecl"
                            THEN <<emitterDecl(init), asmComment>>
                            ELSE IF astIsValueTag(init.tag)
                            THEN <<emitterValue(init, "requestVoid"), asmComment>>
                            ELSE <<>>)
                        \o <<asmLabel(f.LoopLabel)>>
                        \o IterCheck(cond, f.EndLabel)
                   /\ stack' = Pop \o <<f, Frame("emitterCode", "entry", N.l[1])>>
                   /\ UNCHANGED aborted
    /\ UNCHANGED <<ip, trail, tree, arch, syms, mangled, reports, stacksize>>

\* an iteration whose continue label comes after the step
IterStepBeforeLabel(c, iter) ==
    (IF iter.tag # "astEmpty"
     THEN <<emitterValue(iter, "requestVoid"), asmComment>> ELSE <<>>)
    \o <<asmLabel(c.labelContinueTo)>>

\* lines 332-337: the continue label, then the step unless it is empty
IterStep(c, iter) ==
    <<asmLabel(c.labelContinueTo)>>
    \o (IF iter.tag # "astEmpty"
        THEN <<emitterValue(iter, "requestVoid"), asmComment>> ELSE <<>>)

\* emitterIter, lines 328-347: the continue label, the step unless empty,
\* the jump to the top, the exit label; the saved targets are restored
emitterIter_end ==
    /\ Running("emitterIter") /\ Top.pc = "body"
    /\ LET iter == Top.Node.children[3] IN
       out' = out \o <<asmComment>> \o IterStep(ctx, iter)
                  \o <<asmJump(Top.LoopLabel), asmLabel(Top.EndLabel)>>
    /\ ctx' = Restore(ctx, Top)
    /\ stack' = Pop
    /\ UNCHANGED <<ip, trail, tree, arch, syms, labels, mangled, reports, stacksize,
                   aborted>>

Next ==
    \/ emitter_begin
    \/ emitter_end
    \/ emitterModule
    \/ emitterFnImpl_begin
    \/ emitterFnImpl_end
    \/ emitterCode
    \/ emitterLine
    \/ emitterBranch_begin
    \/ emitterBranch_then
    \/ emitterBranch_else
    \/ emitterLoop_begin
    \/ emitterLoop_end
    \/ emitterIter_begin
    \/ emitterIter_end

Spec == Init /\ [][Next]_vars

----------------------------------------------------------------------------
(* What the claims speak of.                                               *)

\* emitter() has returned
Done == stack = <<>>

\* the positions of the entries of s with this op, ascending
Idx(s, op) == SelectSeq([i \in 1..Len(s) |-> i], LAMBDA i : s[i].op = op)

\* the number of entries of s with this op and this label
CountTo(s, op, L) == Cardinality({i \in 1..Len(s) : s[i].op = op /\ s[i].lbl = L})

\* s is the stream of exactly one block: asmEnter ... the matching asmLeave
OneBlock(s) ==
    LET open(n) == Cardinality({i \in 1..n : s[i].op = "asmEnter"})
                   - Cardinality({i \in 1..n : s[i].op = "asmLeave"})
    IN  /\ Len(s) >= 2
        /\ s[1] = asmEnter /\ s[Len(s)] = asmLeave
        /\ \A n \in 1..(Len(s) - 1) : open(n) > 0
        /\ open(Len(s)) = 0

\* the function implementations of a module in the order of lowering,
\* inclusions flattened
RECURSIVE FnImplsFrom(_, _)
FnImplsFrom(M, n) ==
    IF n > Len(M.children) THEN <<>>
    ELSE LET c == M.children[n] IN
         (IF c.tag = "astFnImpl" THEN <<c>>
          ELSE IF c.tag = "astUsing" /\ c.r # <<>> THEN FnImplsFrom(c.r[1], 1)
          ELSE <<>>) \o FnImplsFrom(M, n + 1)

\* the number of return statements in a node
RECURSIVE Returns(_)
Returns(N) ==
    LET sub == N.children \o N.l \o N.r
        sum[i \in 0..Len(sub)] == IF i = 0 THEN 0 ELSE Returns(sub[i]) + sum[i - 1]
    IN  (IF N.tag = "astReturn" THEN 1 ELSE 0) + sum[Len(sub)]

\* the loop and iteration frames on the stack, innermost last
LoopFrames == SelectSeq(stack, LAMBDA f : f.fn \in {"emitterLoop", "emitterIter"})

\* the continue label of the loop of frame f: created right after its exit
\* label (lines 248-249, 299-300)
ContinueOf(f) == operandLabel("labelContinue", f.EndLabel.id + 1)

\* C4: a function with N return statements, whatever breaks and continues
\* it holds, is lowered to one prologue and one epilogue; the epilogue comes
\* right after the body's block and is at the function's return label;
\* exactly N jumps go to that label, all of them from inside the body (a
\* body that runs off its end reaches the epilogue without a jump).
C4_SingleEpilogue ==
    Done =>
        LET F   == FnImplsFrom(tree, 1)
            pro == Idx(out, "asmFnPrologue")
            epi == Idx(out, "asmFnEpilogue")
        IN  /\ Len(pro) = Len(F) /\ Len(epi) = Len(F)
            /\ \A k \in 1..Len(F) :
                 LET L == out[epi[k]].lbl IN
                 /\ pro[k] < epi[k]
                 /\ k < Len(F) => epi[k] < pro[k + 1]
                 /\ OneBlock(SubSeq(out, pro[k] + 1, epi[k] - 1))
                 /\ IsLabel(L) /\ L.kind = "labelReturn"
                 /\ CountTo(out, "asmJump", L) = Returns(F[k])
                 /\ \A i \in 1..Len(out) :
                      (out[i].op \in {"asmJump", "asmBranch", "asmLabel"}
                         /\ out[i].lbl = L) =>
                      (out[i].op = "asmJump" /\ pro[k] < i /\ i < epi[k])

\* a finished function with two returns, one of them inside a loop
C4_Witness ==
    /\ Done
    /\ Len(FnImplsFrom(tree, 1)) = 1
    /\ Returns(FnImplsFrom(tree, 1)[1]) = 2
    /\ \E i \in 1..Len(out) :
          out[i].op = "asmLabel" /\ out[i].lbl.kind = "labelWhile"
    /\ CountTo(out, "asmJump", ctx.labelReturnTo) = 2

\* C5: a break is lowered to a jump to the exit label of the innermost loop
\* or iteration around it, a continue to a jump to that one's continue
\* label: the inner one's inside nested loops, the outer one's again after
\* the inner loop is lowered.
C5_InnermostTarget ==
    [][ (Running("emitterLine")
           /\ Top.Node.tag \in {"astBreak", "astContinue"}
           /\ LoopFrames # <<>>)
        => LET f == LoopFrames[Len(LoopFrames)] IN
           out' = out \o <<asmComment,
                           asmJump(IF Top.Node.tag = "astBreak" THEN f.EndLabel
                                   ELSE ContinueOf(f))>> ]_vars

\* a break lowered in the outer loop after an inner loop was lowered
C5_Witness ==
    /\ Len(LoopFrames) = 1
    /\ out # <<>>
    /\ out[Len(out)] = asmJump(LoopFrames[1].EndLabel)
    /\ \E i \in 1..Len(out) :
          /\ out[i].op = "asmLabel" /\ out[i].lbl.kind = "labelBreak"
          /\ out[i].lbl # LoopFrames[1].EndLabel

\* C6: a loop whose first slot holds the block is lowered to top label,
\* body, continue label, condition, conditional jump to the exit, jump to
\* the top, exit label, the condition once; a loop whose first slot holds
\* the condition to the condition with a conditional jump to the exit, then
\* the same sequence: the condition twice.
C6_LoopShape ==
    [][ (Running("emitterLoop") /\ Top.pc = "body")
        => LET f     == Top
               block == f.Node.l[1].tag = "astCode"
               cond  == IF block THEN f.Node.r[1] ELSE f.Node.l[1]
               flags == emitterValueResult(cond, "requestFlags")
               t     == CHOOSE i \in 1..Len(out) : out[i] = asmLabel(f.LoopLabel)
           IN  /\ CountTo(out, "asmLabel", f.LoopLabel) = 1
               /\ OneBlock(SubSeq(out, t + 1, Len(out)))
               /\ out' = out \o <<asmComment, asmLabel(ContinueOf(f)),
                                  emitterValue(cond, "requestFlags"),
                                  asmBranch(flags, f.EndLabel),
                                  asmJump(f.LoopLabel), asmLabel(f.EndLabel)>>
               /\ IF block
                  THEN /\ out[t - 1] = asmComment
                       /\ CountTo(out', "asmBranch", f.EndLabel) = 1
                  ELSE /\ out[t - 3] = asmComment
                       /\ out[t - 2] = emitterValue(cond, "requestFlags")
                       /\ out[t - 1] = asmBranch(flags, f.EndLabel)
                       /\ CountTo(out', "asmBranch", f.EndLabel) = 2 ]_vars

\* a do-while and a while, both lowered to the end
C6_Witness ==
    /\ Done
    /\ \E i, j \in 1..Len(out) :
          /\ out[i].op = "asmLabel" /\ out[i].lbl.kind = "labelBreak"
          /\ out[j].op = "asmLabel" /\ out[j].lbl.kind = "labelBreak"
          /\ CountTo(out, "asmBranch", out[i].lbl) = 1
          /\ CountTo(out, "asmBranch", out[j].lbl) = 2

\* the lowering is inside a loop or iteration: between the installation of
\* its targets and their restoration
InLoop == \E i \in 1..Len(stack) :
             stack[i].fn \in {"emitterLoop", "emitterIter"} /\ stack[i].pc = "body"

\* C7: while the emission context exists, break-to and continue-to are both
\* the undefined operand when the lowering is not inside a loop or
\* iteration, and labels when it is.
C7_TargetsDefinedInLoopsOnly ==
    (~Done /\ ~aborted) =>
        IF InLoop
        THEN IsLabel(ctx.labelBreakTo) /\ IsLabel(ctx.labelContinueTo)
        ELSE ctx.labelBreakTo = operandUndefined
             /\ ctx.labelContinueTo = operandUndefined

\* C8: a function implementation lowered twice keeps the label of the first
\* lowering: every prologue emitted carries the label the symbol has now,
\* and the mangler was called once per symbol lowered.
C8_LabelKept ==
    LET F   == FnImplsFrom(tree, 1)
        pro == Idx(out, "asmFnPrologue")
    IN  /\ Len(pro) <= Len(F)
        /\ \A k \in 1..Len(pro) :
             /\ syms[F[k].symbol].label # 0
             /\ out[pro[k]].name = syms[F[k].symbol].label
        /\ mangled = Cardinality({F[k].symbol : k \in 1..Len(pro)})

\* the second prologue of the same function
C8_Witness ==
    LET F == FnImplsFrom(tree, 1) IN
    /\ Len(Idx(out, "asmFnPrologue")) = 2
    /\ F[1].symbol = F[2].symbol

\* C9: when emitterLine or emitterModule meets a node whose tag it does not
\* handle, the compilation is aborted there: nothing is emitted from then
\* on, no epilogue of the open function and none of the file, and no step
\* follows.
C9_UnhandledAborts ==
    /\ [](aborted =>
            /\ Idx(out, "asmFileEpilogue") = <<>>
            /\ (\E i \in 1..Len(stack) : stack[i].fn = "emitterFnImpl")
                  => Len(Idx(out, "asmFnEpilogue")) + 1
                       = Len(Idx(out, "asmFnPrologue")))
    /\ [][ /\ aborted => UNCHANGED vars
           /\ (Running("emitterLine")
                 /\ Top.Node.tag \notin
                      {"astBranch", "astLoop", "astIter", "astCode", "astReturn",
                       "astBreak", "astContinue", "astDecl", "astEmpty",
                       "astBOP", "astUOP", "astTOP", "astIndex", "astCall",
                       "astCast", "astSizeof", "astLiteral"})
              => (aborted' /\ out' = Append(out, asmComment))
           /\ (Running("emitterModule")
                 /\ Top.Current <= Len(Top.Node.children)
                 /\ Top.Node.children[Top.Current].tag \notin
                      {"astUsing", "astFnImpl", "astDecl", "astEmpty"})
              => (aborted' /\ out' = out) ]_vars

\* aborted on a statement inside a loop inside a function
C9_Witness ==
    /\ aborted
    /\ Top.fn = "emitterLine"
    /\ LoopFrames # <<>>

\* C10: an if with an else-branch is lowered to condition (flags), branch
\* to the else label, then-branch, jump to the end label, else label,
\* else-branch, end label; an if without one to condition, branch to the
\* else label, then-branch, else label, and the end label is neither jumped
\* to nor defined.
C10_BranchShape ==
    [][ (Running("emitterBranch") /\ Top.pc # "entry")
        => LET f     == Top
               cond  == f.Node.children[1]
               flags == emitterValueResult(cond, "requestFlags")
               b     == CHOOSE i \in 1..Len(out) :
                           out[i] = asmBranch(flags, f.ElseLabel)
           IN  /\ CountTo(out, "asmBranch", f.ElseLabel) = 1
               /\ out[b - 1] = emitterValue(cond, "requestFlags")
               /\ IF f.pc = "then"
                  THEN /\ OneBlock(SubSeq(out, b + 1, Len(out)))
                       /\ IF f.Node.r # <<>>
                          THEN out' = out \o <<asmComment, asmJump(f.EndLabel),
                                               asmLabel(f.ElseLabel)>>
                          ELSE /\ out' = Append(out, asmLabel(f.ElseLabel))
                               /\ \A i \in 1..Len(out') : out'[i].lbl # f.EndLabel
                  ELSE LET e == CHOOSE i \in 1..Len(out) :
                                    out[i] = asmLabel(f.ElseLabel)
                       IN  /\ CountTo(out, "asmLabel", f.ElseLabel) = 1
                           /\ OneBlock(SubSeq(out, b + 1, e - 3))
                           /\ out[e - 2] = asmComment
                           /\ out[e - 1] = asmJump(f.EndLabel)
                           /\ OneBlock(SubSeq(out, e + 1, Len(out)))
                           /\ out' = Append(out, asmLabel(f.EndLabel))
                           /\ CountTo(out', "asmJump", f.EndLabel) = 1
                           /\ CountTo(out', "asmLabel", f.EndLabel) = 1 ]_vars

\* an if-else with a return in either branch, lowered to its end label
C10_Witness ==
    /\ out # <<>>
    /\ out[Len(out)].op = "asmLabel"
    /\ out[Len(out)].lbl.kind = "labelEndIf"
    /\ CountTo(out, "asmJump", ctx.labelReturnTo) = 2

\* the module of one function f whose body is  for (;;) { if (done) break; }
ScenarioD ==
    Module(<<FnImpl(1, <<BlockStmt("for___",
                           <<BlockStmt("if", <<LeafStmt("break")>>)>>)>>)>>)

\* C11: an iteration is lowered to the init part (nothing when empty), the
\* top label, the condition with a conditional jump to the exit (nothing
\* when the condition is empty), the body, the continue label, the step
\* (nothing when empty), a jump to the top label, the exit label.  For
\* for (;;) { if (done) break; } nothing stands between the top label and
\* the body, no conditional jump goes to the exit label, and the break is a
\* jump to the exit label of the iteration.
C11_IterShape ==
    /\ []((Done /\ tree = ScenarioD) =>
            LET For   == operandLabel("labelFor", 2)
                Break == operandLabel("labelBreak", 3)
                Else  == operandLabel("labelElse", 5)
            IN  out = <<asmFilePrologue, asmComment, asmFnPrologue(1, 8),
                        asmEnter, asmComment,
                        asmLabel(For),
                        asmEnter, asmComment,
                        emitterValue(CondExpr, "requestFlags"),
                        asmBranch(operandFlags, Else),
                        asmEnter, asmComment, asmJump(Break), asmLeave,
                        asmLabel(Else),
                        asmLeave,
                        asmComment, asmLabel(operandLabel("labelContinue", 4)),
                        asmJump(For), asmLabel(Break),
                        asmLeave, asmFnEpilogue(operandLabel("labelReturn", 1)),
                        asmFileEpilogue>>)
    /\ [][ /\ (Running("emitterIter") /\ Top.pc = "entry"
                 /\ (Top.Node.children[1].tag = "astDecl"
                       \/ Top.Node.children[1].tag = "astEmpty"
                       \/ Top.Node.children[1].tag \in {"astBOP", "astUOP", "astTOP",
                             "astIndex", "astCall", "astCast", "astSizeof",
                             "astLiteral"}))
              => LET init == Top.Node.children[1]
                     cond == Top.Node.children[2]
                     f    == stack'[Len(stack') - 1]
                 IN  /\ Len(stack') = Len(stack) + 1
                     /\ f.fn = "emitterIter"
                     /\ f.LoopLabel.kind = "labelFor"
                     /\ out' = out
                          \o (IF init.tag = "astDecl"
                              THEN <<emitterDecl(init), asmComment>>
                              ELSE IF init.tag = "astEmpty" THEN <<>>
                              ELSE <<emitterValue(init, "requestVoid"), asmComment>>)
                          \o <<asmLabel(f.LoopLabel)>>
                          \o (IF cond.tag = "astEmpty" THEN <<>>
                              ELSE <<emitterValue(cond, "requestFlags"),
                                     asmBranch(operandFlags, f.EndLabel)>>)
           /\ (Running("emitterIter") /\ Top.pc = "body")
              => LET f    == Top
                     cond == f.Node.children[2]
                     iter == f.Node.children[3]
                     t    == CHOOSE i \in 1..Len(out) : out[i] = asmLabel(f.LoopLabel)
                     pre  == IF cond.tag = "astEmpty" THEN 0 ELSE 2
                 IN  /\ CountTo(out, "asmLabel", f.LoopLabel) = 1
                     /\ OneBlock(SubSeq(out, t + pre + 1, Len(out)))
                     /\ out' = out
                          \o <<asmComment, asmLabel(ContinueOf(f))>>
                          \o (IF iter.tag = "astEmpty" THEN <<>>
                              ELSE <<emitterValue(iter, "requestVoid"), asmComment>>)
                          \o <<asmJump(f.LoopLabel), asmLabel(f.EndLabel)>>
                     /\ CountTo(out', "asmBranch", f.EndLabel) = pre \div 2
                     /\ CountTo(out', "asmJump", f.LoopLabel) = 1
                     /\ CountTo(out', "asmLabel", f.EndLabel) = 1 ]_vars

\* for (;;) { if (done) break; } lowered to its end
C11_Witness ==
    /\ Done
    /\ tree = ScenarioD
    /\ CountTo(out, "asmJump", operandLabel("labelBreak", 3)) = 1

\* the number of nested-scope symbols below a scope
RECURSIVE ScopesIn(_)
ScopesIn(scope) ==
    LET c == scope.children
        sum[i \in 0..Len(c)] ==
            IF i = 0 THEN 0
            ELSE (IF c[i].tag = "symScope" THEN 1 + ScopesIn(c[i]) ELSE 0)
                 + sum[i - 1]
    IN  sum[Len(c)]

\* C12: after emitterFnAllocateStack every parameter and every automatic
\* variable below the function symbol had its offset written exactly once
\* (one assignment in the log for it, and the offset it holds is the one
\* written); nothing else was written, and the nested scopes take no room
\* in the frame: its size is the sum of the variables' sizes.
C12_AssignedOnce ==
    Allocated =>
        LET ps    == ParamsFrom(syms[1], 1)
            as    == AutosFrom(syms[1], <<>>, 1)
            slots == ps \o as
            writes(path) == {i \in 1..Len(reports) : reports[i].sym = path}
        IN  /\ \A k \in 1..Len(slots) :
                 /\ Cardinality(writes(slots[k].path)) = 1
                 /\ \A i \in writes(slots[k].path) :
                      reports[i].offset = slots[k].offset
            /\ \A i \in 1..Len(reports) :
                 \E k \in 1..Len(slots) : reports[i].sym = slots[k].path
            /\ stacksize = SumSizes(as, Len(as))

\* two parameters and a variable inside a scope inside a scope
C12_Witness ==
    /\ Allocated
    /\ Len(ParamsFrom(syms[1], 1)) = 2
    /\ ScopesIn(syms[1]) = 2
    /\ Len(AutosFrom(syms[1], <<>>, 1)) = 1
    /\ Len(AutosFrom(syms[1], <<>>, 1)[1].path) = 3
    /\ Len(reports) = 3

\* the lowering of a statement returns in this step: the frame of emitterLine,
\* or of the handler it called, leaves the stack
LineReturns ==
    /\ ~aborted /\ stack # <<>>
    /\ Top.AtCall # <<>>
    /\ Len(stack') = Len(stack) - 1

----------------------------------------------------------------------------
(* A run of the emitted code.  The stream is read as the assembly sink     *)
(* defines its entries: a label definition marks a place, a jump continues *)
(* at the place its label marks, a conditional jump does so when the       *)
(* condition evaluated before it was false and goes on to the next entry   *)
(* when it was true, the epilogue returns, every other entry goes on to    *)
(* the next one.  The outcome of every condition is arbitrary.             *)

\* the kinds that occur together in a function body of the runs
RunProfiles ==
    { {"break", "continue", "while", "do"},
      {"break", "continue", "for___", "forDCS"},
      {"continue", "ifelse", "forVC_"} }

RunInputs ==
    {Module(<<FnImpl(1, b)>>) :
        b \in UNION {Blocks(K, n) : K \in RunProfiles, n \in 0..MaxStmts}}

InitRun ==
    /\ tree \in RunInputs
    /\ emitterInit

\* the place the label L marks: its definition, or the epilogue at it; 0
\* when the stream holds none, or more than one
Target(L) ==
    LET D == {i \in 1..Len(out) :
                 out[i].op \in {"asmLabel", "asmFnEpilogue"} /\ out[i].lbl = L}
    IN  IF Cardinality(D) = 1 THEN CHOOSE i \in D : TRUE ELSE 0

\* one entry of the stream is executed; ip = 0: the run has ended
Execute ==
    /\ stack = <<>> /\ ~aborted
    /\ ip \in 1..Len(out)
    /\ LET I == out[ip] IN
       /\ trail' = IF I.op = "asmEnter" THEN <<ip>> ELSE Append(trail, ip)
       /\ IF I.op = "asmJump" THEN ip' = Target(I.lbl)
          ELSE IF I.op = "asmBranch" THEN ip' \in {ip + 1, Target(I.lbl)}
          ELSE IF I.op \in {"asmFnEpilogue", "asmFileEpilogue"} THEN ip' = 0
          ELSE ip' = ip + 1
    /\ UNCHANGED <<tree, arch, syms, ctx, labels, mangled, out, reports,
                   stacksize, stack, aborted>>

NextRun == Next \/ Execute

SpecRun == InitRun /\ [][NextRun]_vars

\* the run is under way: emitter() has returned and the run has not ended
Runs == stack = <<>> /\ ~aborted /\ ip # 0

\* The loops and iterations of a tree in the order of their lowering, each
\* with the number of its top label: the labels are numbered in the order
\* the handlers are entered, one for a function, two for a branch, three
\* (top, exit, continue) for a loop or iteration.
\* st = [n: the labels made so far, loops: the loops found so far]
RECURSIVE LoopsIn(_, _)
RECURSIVE LoopsInSeq(_, _, _)
LoopsInSeq(S, i, st) ==
    IF i > Len(S) THEN st ELSE LoopsInSeq(S, i + 1, LoopsIn(S[i], st))

LoopsIn(N, st) ==
    CASE N.tag \in {"astModule", "astCode"} -> LoopsInSeq(N.children, 1, st)
      [] N.tag = "astUsing"  -> LoopsInSeq(N.r, 1, st)
      [] N.tag = "astFnImpl" -> LoopsInSeq(N.r, 1, [st EXCEPT !.n = @ + 1])
      [] N.tag = "astBranch" ->
            LoopsInSeq(N.l \o N.r, 1, [st EXCEPT !.n = @ + 2])
      [] N.tag \in {"astLoop", "astIter"} ->
            LoopsInSeq(SelectSeq(N.l \o N.r, LAMBDA c : c.tag = "astCode"), 1,
                       [n |-> st.n + 3,
                        loops |-> Append(st.loops, [Node |-> N, id |-> st.n + 1])])
      [] OTHER -> st

Loops == LoopsIn(tree, [n |-> 0, loops |-> <<>>]).loops

LoopTop(l) ==
    operandLabel(IF l.Node.tag = "astLoop" THEN "labelWhile" ELSE "labelFor", l.id)

LoopExit(l) == operandLabel("labelBreak", l.id + 1)

LoopCont(l) == operandLabel("labelContinue", l.id + 2)

\* the loop's block is in its first slot: the condition is checked after it
PostTest(l) == l.Node.tag = "astLoop" /\ l.Node.l[1].tag = "astCode"

\* the condition of a loop; of an iteration, its second part
CondOf(l) ==
    IF l.Node.tag = "astIter" THEN l.Node.children[2]
    ELSE IF PostTest(l) THEN l.Node.r[1] ELSE l.Node.l[1]

\* the step of an iteration
StepOf(l) == l.Node.children[3]

\* the place of the first entry into a block after place t
BlockAfter(t) ==
    CHOOSE e \in (t + 1)..Len(out) :
        out[e] = asmEnter /\ \A i \in (t + 1)..(e - 1) : out[i] # asmEnter

\* the places among s that hold more than a label, a jump or a comment
Work(s) ==
    SelectSeq(s, LAMBDA i : out[i].op \notin {"asmLabel", "asmJump", "asmComment"})

\* the last work among the places s, with the run now at next, was the
\* condition of loop l, and the run went on behind its conditional jump:
\* the check passed
PassedCheck(l, s, next) ==
    LET w == Work(s)
        k == Len(w)
        p == s \o <<next>>
    IN  /\ k >= 2
        /\ out[w[k - 1]] = emitterValue(CondOf(l), "requestFlags")
        /\ out[w[k]] = asmBranch(operandFlags, LoopExit(l))
        /\ w[k] = w[k - 1] + 1
        /\ \E j \in 1..(Len(p) - 1) : p[j] = w[k] /\ p[j + 1] = w[k] + 1

\* C14: in a run of the emitted code, with any outcomes of the conditions,
\* the body of a while loop, and of an iteration with a condition, is only
\* entered right after the loop's condition was checked and held; an
\* iteration reached again from its bottom has run its step last, before
\* the condition is checked again; the body of a do-while loop is entered
\* from above without any check of the loop's condition, and again from the
\* bottom only right after the condition was checked and held.
C14_CheckBeforeBody ==
    Runs =>
        LET L == Loops IN
        \A k \in 1..Len(L) :
            LET l == L[k]
                t == Target(LoopTop(l))
                n == Len(trail)
            IN  /\ t # 0
                /\ (out[ip] = asmEnter /\ ip = BlockAfter(t)) =>
                     /\ n >= 2
                     /\ IF PostTest(l)
                        THEN /\ trail[n] = t
                             /\ IF trail[n - 1] = t - 1
                                THEN \A j \in 1..n :
                                        out[trail[j]].op = "asmBranch"
                                           => out[trail[j]].lbl # LoopExit(l)
                                ELSE /\ out[trail[n - 1]] = asmJump(LoopTop(l))
                                     /\ PassedCheck(l, trail, ip)
                        ELSE CondOf(l).tag # "astEmpty" => PassedCheck(l, trail, ip)
                /\ (l.Node.tag = "astIter" /\ StepOf(l).tag # "astEmpty"
                      /\ ip = t + 1 /\ n >= 2
                      /\ out[trail[n - 1]] = asmJump(LoopTop(l)))
                     => LET w == Work(SubSeq(trail, 1, n - 2)) IN
                        /\ w # <<>>
                        /\ out[w[Len(w)]] = emitterValue(StepOf(l), "requestVoid")
                        /\ out[w[Len(w)] - 1] = asmLabel(LoopCont(l))

\* the body of a do-while loop is entered again after its condition held
C14_Witness ==
    /\ Runs
    /\ out[ip] = asmEnter
    /\ \E k \in 1..Len(Loops) :
          /\ PostTest(Loops[k])
          /\ ip = BlockAfter(Target(LoopTop(Loops[k])))
          /\ PassedCheck(Loops[k], trail, ip)

\* the block of a loop or iteration
BodyOf(l) == SelectSeq(l.Node.l \o l.Node.r, LAMBDA c : c.tag = "astCode")[1]

\* the number of statements with this tag in N that belong to no loop or
\* iteration inside N
RECURSIVE Own(_, _)
Own(N, tag) ==
    LET sub == N.children \o N.l \o N.r
        sum[i \in 0..Len(sub)] == IF i = 0 THEN 0 ELSE Own(sub[i], tag) + sum[i - 1]
    IN  IF N.tag = tag THEN 1
        ELSE IF N.tag \in {"astLoop", "astIter"} THEN 0
        ELSE sum[Len(sub)]

\* C15: in a run of the emitted code, the exit label of a loop or iteration
\* is reached only from a conditional jump behind a check of that loop's
\* condition (the check failed), or from a jump that stands between the top
\* label and the exit label, of which there is one for each break of that
\* loop; the exit label of an iteration with an empty condition and no
\* break in its body is not reached at all.
C15_ExitByCheckOrBreak ==
    Runs =>
        LET L == Loops IN
        \A k \in 1..Len(L) :
            LET l == L[k]
                t == Target(LoopTop(l))
                x == Target(LoopExit(l))
            IN  /\ t # 0 /\ x # 0 /\ t < x
                /\ CountTo(out, "asmJump", LoopExit(l)) = Own(BodyOf(l), "astBreak")
                /\ ip = x =>
                     /\ trail # <<>>
                     /\ LET p == trail[Len(trail)] IN
                        \/ /\ out[p] = asmBranch(operandFlags, LoopExit(l))
                           /\ out[p - 1] = emitterValue(CondOf(l), "requestFlags")
                           /\ CondOf(l).tag # "astEmpty"
                           /\ t - 1 <= p /\ p < x
                        \/ /\ out[p] = asmJump(LoopExit(l))
                           /\ t < p /\ p < x
                /\ (l.Node.tag = "astIter" /\ CondOf(l).tag = "astEmpty"
                      /\ Own(BodyOf(l), "astBreak") = 0)
                     => (ip # x /\ \A j \in 1..Len(trail) : trail[j] # x)

\* the exit label of an outer loop is reached by a break behind an inner
\* loop
C15_Witness ==
    /\ Runs
    /\ Len(Loops) = 2
    /\ ip = Target(LoopExit(Loops[1]))
    /\ out[trail[Len(trail)]] = asmJump(LoopExit(Loops[1]))
    /\ Target(LoopExit(Loops[2])) < trail[Len(trail)]

IsPrefix(a, b) == Len(a) <= Len(b) /\ SubSeq(b, 1, Len(a)) = a

\* C16: every continue of a loop, and nothing else, is lowered to a jump
\* to the loop's continue label; the jump stands in the body of the loop
\* and the continue label is defined right behind the body: in
\* an iteration before the step, so that the run goes on with the step
\* (unless empty), the jump to the top label and the check of the condition
\* (unless empty) before it enters the body again; in a while or do-while
\* loop right before the condition at the bottom, so that the run goes on
\* with the check of the condition and enters the body again only when it
\* held, and leaves by the exit label when it did not.
C16_ContinueRechecks ==
    Runs =>
        LET L == Loops IN
        \A k \in 1..Len(L) :
          /\ CountTo(out, "asmJump", LoopCont(L[k])) = Own(BodyOf(L[k]), "astContinue")
          /\ \A j \in 1..Len(trail) :
            out[trail[j]] = asmJump(LoopCont(L[k])) =>
            LET l     == L[k]
                iter  == l.Node.tag = "astIter"
                step  == iter /\ StepOf(l).tag # "astEmpty"
                cond  == CondOf(l).tag # "astEmpty"
                K     == Target(LoopCont(l))
                t     == Target(LoopTop(l))
                x     == Target(LoopExit(l))
                e     == BlockAfter(t)
                J     == IF iter THEN K + 1 + (IF step THEN 2 ELSE 0) ELSE K + 3
                check == <<emitterValue(CondOf(l), "requestFlags"),
                           asmBranch(operandFlags, LoopExit(l))>>
                toTop == IF iter
                         THEN <<K>> \o (IF step THEN <<K + 1, K + 2>> ELSE <<>>)
                              \o <<J, t>> \o (IF cond THEN <<t + 1, t + 2>> ELSE <<>>)
                         ELSE <<K, K + 1, K + 2>>
                toBody == IF iter THEN toTop \o <<e>> ELSE toTop \o <<J, t, e>>
                toExit == toTop \o <<x>>
                r      == SubSeq(trail, j + 1, Len(trail)) \o <<ip>>
            IN  /\ K # 0 /\ t # 0 /\ x # 0
                /\ e < trail[j] /\ trail[j] < K
                /\ OneBlock(SubSeq(out, e, K - 2))
                /\ out[K - 1] = asmComment
                /\ step => out[K + 1] = emitterValue(StepOf(l), "requestVoid")
                /\ out[J] = asmJump(LoopTop(l))
                /\ IF iter
                   THEN cond => SubSeq(out, t + 1, t + 2) = check
                   ELSE SubSeq(out, K + 1, K + 2) = check
                /\ \/ IsPrefix(r, toBody)
                   \/ cond /\ IsPrefix(r, toExit)
                   \/ cond /\ IsPrefix(toExit, r)

\* behind a continue in an iteration the step has run and the condition
\* held: the run is about to enter the body again
C16_Witness ==
    /\ Runs
    /\ \E k \in 1..Len(Loops) : \E j \in 1..Len(trail) :
          /\ out[trail[j]] = asmJump(LoopCont(Loops[k]))
          /\ Loops[k].Node.tag = "astIter"
          /\ StepOf(Loops[k]).tag # "astEmpty"
          /\ CondOf(Loops[k]).tag # "astEmpty"
          /\ ip = BlockAfter(Target(LoopTop(Loops[k])))
          /\ PassedCheck(Loops[k], trail, ip)

\* the frames of emitterFnImpl on the stack: the function being lowered
FnFrames == SelectSeq(stack, LAMBDA f : f.fn = "emitterFnImpl")

\* C17: a return with a value is lowered to the evaluation of the value
\* with the request for the return slot, then one jump to the return-to
\* target; a return without a value to that jump alone; the target is the
\* return label made by the lowering of the function around the return,
\* inside any loops and branches, and the targets are left as they were.
C17_ReturnJumps ==
    [][ (Running("emitterLine") /\ Top.Node.tag = "astReturn")
        => /\ Len(FnFrames) = 1
           /\ FnFrames[1].EndLabel.kind = "labelReturn"
           /\ FnFrames[1].EndLabel = ctx.labelReturnTo
           /\ \A i \in 1..Len(out) :
                 out[i].op = "asmFnEpilogue" => out[i].lbl # FnFrames[1].EndLabel
           /\ out' = out \o <<asmComment>>
                  \o (IF Top.Node.r # <<>>
                      THEN <<emitterValue(Top.Node.r[1], "requestReturn")>>
                      ELSE <<>>)
                  \o <<asmJump(FnFrames[1].EndLabel)>>
           /\ ctx' = ctx ]_vars

\* a return with a value lowered inside a loop inside a branch
C17_Witness ==
    /\ LoopFrames # <<>>
    /\ \E i \in 1..Len(stack) : stack[i].fn = "emitterBranch"
    /\ Len(out) >= 2
    /\ out[Len(out)] = asmJump(ctx.labelReturnTo)
    /\ out[Len(out) - 1] = emitterValue(RetExpr, "requestReturn")

\* the function implementations and declarations of a module in sibling
\* order, each inclusion replaced by those of the module it refers to
RECURSIVE Flatten(_, _)
Flatten(M, n) ==
    IF n > Len(M.children) THEN <<>>
    ELSE LET c == M.children[n] IN
         (IF c.tag \in {"astFnImpl", "astDecl"} THEN <<c>>
          ELSE IF c.tag = "astUsing" /\ c.r # <<>> THEN Flatten(c.r[1], 1)
          ELSE <<>>) \o Flatten(M, n + 1)

\* what the lowering of the nodes s puts into the stream outside of the
\* function bodies: a declaration; a comment, a prologue with the function's
\* label and an epilogue
RECURSIVE Skeleton(_)
Skeleton(s) ==
    IF s = <<>> THEN <<>>
    ELSE (IF s[1].tag = "astDecl"
          THEN <<[op |-> "emitterDecl", name |-> 0]>>
          ELSE <<[op |-> "asmComment", name |-> 0],
                 [op |-> "asmFnPrologue", name |-> syms[s[1].symbol].label],
                 [op |-> "asmFnEpilogue", name |-> 0]>>)
         \o Skeleton(Tail(s))

\* the entries of the stream outside of the function bodies
TopLevel ==
    LET depth(i) == Cardinality({j \in 1..(i - 1) : out[j].op = "asmFnPrologue"})
                    - Cardinality({j \in 1..(i - 1) : out[j].op = "asmFnEpilogue"})
        at == SelectSeq([i \in 1..Len(out) |-> i],
                        LAMBDA i : depth(i) = 0 \/ out[i].op = "asmFnEpilogue")
    IN  [k \in 1..Len(at) |-> [op |-> out[at[k]].op, name |-> out[at[k]].name]]

\* C18: when emitter() has returned the stream is, between the file
\* prologue and the file epilogue, the lowering of the module's function
\* implementations and declarations in sibling order, those of an included
\* module in the place of the inclusion, each lowered once; inclusions of no
\* module and empty nodes add nothing; the labels of all of them come from
\* the one context.  When the compilation was aborted the stream is a
\* beginning of that.
C18_ModuleFlattened ==
    LET want == <<[op |-> "asmFilePrologue", name |-> 0]>>
                \o Skeleton(Flatten(tree, 1))
                \o <<[op |-> "asmFileEpilogue", name |-> 0]>>
        epi  == Idx(out, "asmFnEpilogue")
    IN  /\ aborted => IsPrefix(TopLevel, want)
        /\ Done => TopLevel = want
        /\ (Done \/ aborted) =>
              \A k \in 1..(Len(epi) - 1) :
                 out[epi[k]].lbl.id < out[epi[k + 1]].lbl.id

\* a function of an included module, then a function of the module itself
C18_Witness ==
    /\ Done
    /\ Len(tree.children) = 2
    /\ tree.children[1].tag = "astUsing"
    /\ tree.children[1].r # <<>>
    /\ tree.children[2].tag = "astFnImpl"
    /\ Len(Idx(out, "asmFnPrologue")) = 2
    /\ out[Idx(out, "asmFnPrologue")[1]].name # out[Idx(out, "asmFnPrologue")[2]].name

\* the places of the stream that define a label
Defs(L) ==
    {j \in 1..Len(out) :
        out[j].op \in {"asmLabel", "asmFnEpilogue"} /\ out[j].lbl = L}

\* C19: no label is defined twice in the stream of a compilation that has
\* ended; and in the lowering of a function whose
\* breaks and continues all lie inside a loop or iteration, every label a
\* jump or conditional jump goes to is defined exactly once, by a label
\* definition or the epilogue of that same function's lowering.
C19_TargetsDefinedOnce ==
    /\ (Done \/ aborted) =>
          \A i \in 1..Len(out) :
             out[i].op \in {"asmLabel", "asmFnEpilogue"}
                => Cardinality(Defs(out[i].lbl)) = 1
    /\ Done =>
          LET F   == FnImplsFrom(tree, 1)
              pro == Idx(out, "asmFnPrologue")
              epi == Idx(out, "asmFnEpilogue")
          IN  /\ Len(pro) = Len(F) /\ Len(epi) = Len(F)
              /\ \A k \in 1..Len(F) :
                   (Own(F[k], "astBreak") = 0 /\ Own(F[k], "astContinue") = 0)
                   => \A i \in pro[k]..epi[k] :
                         out[i].op \in {"asmJump", "asmBranch"}
                         => /\ IsLabel(out[i].lbl)
                            /\ Cardinality(Defs(out[i].lbl)) = 1
                            /\ \A j \in Defs(out[i].lbl) :
                                  pro[k] < j /\ j <= epi[k]

\* a finished function with a break in a loop inside a loop
C19_Witness ==
    /\ Done
    /\ Len(FnImplsFrom(tree, 1)) = 1
    /\ Own(FnImplsFrom(tree, 1)[1], "astBreak") = 0
    /\ Own(FnImplsFrom(tree, 1)[1], "astContinue") = 0
    /\ \E i \in 1..Len(out) :
          /\ out[i].op = "asmJump" /\ out[i].lbl.kind = "labelBreak"
          /\ out[i].lbl.id > 3
          /\ Cardinality(Defs(out[i].lbl)) = 1

====
